---- MODULE Spec2Model ----
(***************************************************************************)
(* Model of the five AutoIR diagram scripts (src/diagrams/*.py).  Each     *)
(* script runs  ensure_out_dir(); generate(out); print(...)  where         *)
(* generate() declares a fixed graph and calls dot.render(cleanup=True).   *)
(* The scripts share one output directory, so the file system is the only  *)
(* shared state.  render() is followed through its three steps: write the  *)
(* graph source under the bare file name, run the layout engine that       *)
(* writes <file name>.<format>, delete the graph source.                   *)
(***************************************************************************)
EXTENDS Integers, Sequences, FiniteSets, TLC

\* ------------------------------------------------------------------ bounds
MaxInvocations == 2   \* script invocations in one behaviour, of any scripts

Scripts == {"deployment", "llm_flow", "overview", "pipeline", "search_ui"}

\* ------------------------------------------------- graph statements (data)
\* dot.node(id, label, shape=...)
N(id, label, shape) == [op |-> "node", id |-> id, label |-> label, shape |-> shape]
\* dot.edge(tail, head, label=..., style=... / dir=...)
E(tail, head, label, style) ==
    [op |-> "edge", tail |-> tail, head |-> head, label |-> label, style |-> style]
\* dot.edges([(tail, head), ...])
Es(pairs) == [op |-> "edges", pairs |-> pairs]
\* with dot.subgraph(name=...) as c: c.attr(label=...); c.node(...) ...
Sub(name, label, body) == [op |-> "subgraph", name |-> name, label |-> label, body |-> body]

deployment_body_dup ==
    << Sub("cluster_cfn", "CloudFormation Stack: AutoIR-Fargate",
           << N("ecs", "ECS Service: autoir", "box"),
              N("task", "Task Definition", "box"),
              N("logs", "CloudWatch Logs: /autoir/daemon", "component"),
              N("role", "IAM Roles (task/execution)", "tab") >>),
       N("ecr", "ECR: autoir:latest", "cylinder"),
       N("ecs", "VPC + Subnets + SG", "box"),
       E("ecr", "task", "Image", "solid"),
       E("task", "ecs", "Run", "solid"),
       E("role", "task", "", "solid"),
       E("ecs", "logs", "awslogs", "solid"),
       E("ecs", "ecs", "", "solid") >>

deployment_body ==
    << Sub("cluster_cfn", "CloudFormation Stack: AutoIR-Fargate",
           << N("ecs", "ECS Service: autoir", "box"),
              N("task", "Task Definition", "box"),
              N("logs", "CloudWatch Logs: /autoir/daemon", "component"),
              N("role", "IAM Roles (task/execution)", "tab") >>),
       N("ecr", "ECR: autoir:latest", "cylinder"),
       N("sg", "VPC + Subnets + SG", "box"),
       E("ecr", "task", "Image", "solid"),
       E("task", "ecs", "Run", "solid"),
       E("role", "task", "", "solid"),
       E("ecs", "logs", "awslogs", "solid"),
       E("sg", "ecs", "", "solid") >>

llm_flow_body ==
    << N("events", "Recent Events\n(TiDB)", "cylinder"),
       N("heur", "Heuristics\n(error/timeouts/...)", "box"),
       N("prompt", "Prompt Builder\n(system + context)", "box"),
       N("llm", "LLM Client\n(Kimi K2 / OpenAI)", "box"),
       N("incidents", "Incidents JSON\n(title, severity, confidence, dedupe_key)", "box"),
       N("store", "Incident Store\n(TiDB)", "cylinder"),
       N("notify", "Notify\n(Slack/SNS)", "box"),
       E("events", "heur", "", "solid"),
       E("heur", "prompt", "", "solid"),
       E("prompt", "llm", "", "solid"),
       E("llm", "incidents", "", "solid"),
       E("incidents", "store", "", "solid"),
       E("incidents", "notify", "", "solid") >>

overview_clusters ==
    << Sub("cluster_aws", "AWS",
           << N("cw", "CloudWatch Logs", "component"),
              N("sagemaker", "SageMaker\n(Serverless Embeddings)", "box"),
              N("ecs", "ECS Fargate\n(AutoIR Daemon)", "box"),
              N("cf", "CloudFormation", "folder"),
              N("ecr", "ECR", "cylinder"),
              N("iam", "IAM", "tab") >>),
       Sub("cluster_autoir", "AutoIR",
           << N("cli", "CLI / TUI\n(Combined Dashboard + Search)", "box"),
              N("daemon", "Daemon\n(ingest, analyze, alert)", "box"),
              N("llmclient", "LLM Client\n(Kimi K2 / OpenAI)", "box") >>),
       Sub("cluster_data", "Data",
           << N("tidb", "TiDB\nVECTOR(384) log store\n+ incidents", "cylinder") >>),
       Sub("cluster_alerts", "Alerts",
           << N("slack", "Slack Webhook", "box"),
              N("sns", "Amazon SNS", "box") >>),
       Sub("cluster_llm", "LLM Providers",
           << N("kimi", "Kimi K2\n(EC2 endpoint)", "box"),
              N("openai", "OpenAI", "box") >>) >>

overview_flows_short ==
    << E("cw", "daemon", "tail /aws/...", "solid"),
       E("daemon", "sagemaker", "embed text", "solid"),
       E("sagemaker", "daemon", "vector(384)", "solid"),
       E("daemon", "tidb", "INSERT logs + embeddings", "solid"),
       E("cli", "tidb", "search/query", "solid"),
       E("cli", "ecs", "deploy/manage", "dashed"),
       E("cf", "ecs", "stack", "dashed"),
       E("ecr", "ecs", "image", "dashed"),
       E("iam", "ecs", "", "dashed"),
       E("daemon", "llmclient", "incident analysis", "solid"),
       E("llmclient", "kimi", "", "dashed"),
       E("llmclient", "openai", "", "dashed"),
       E("daemon", "slack", "alerts", "solid"),
       E("daemon", "sns", "alerts", "solid") >>

overview_flows ==
    << E("cw", "daemon", "tail /aws/...", "solid"),
       E("daemon", "sagemaker", "embed text", "solid"),
       E("sagemaker", "daemon", "vector(384)", "solid"),
       E("daemon", "tidb", "INSERT logs + embeddings", "solid"),
       E("cli", "tidb", "search/query", "solid"),
       E("cli", "ecs", "deploy/manage", "dashed"),
       E("cf", "ecs", "stack", "dashed"),
       E("ecr", "ecs", "image", "dashed"),
       E("iam", "ecs", "", "dashed"),
       E("daemon", "llmclient", "incident analysis", "solid"),
       E("llmclient", "kimi", "", "dashed"),
       E("llmclient", "openai", "", "dashed"),
       E("daemon", "slack", "alerts", "solid"),
       E("daemon", "sns", "alerts", "solid"),
       E("cw", "cli", "dashboard", "dotted") >>

overview_body == overview_clusters \o overview_flows

pipeline_body ==
    << N("ingest", "Ingest\n(CloudWatch tail)", "box"),
       N("embed", "Embeddings\n(SageMaker)", "box"),
       N("store", "Store\nTiDB VECTOR(384)", "cylinder"),
       N("search", "Search\n(Log Search TUI)", "box"),
       N("analysis", "Analysis\n(LLM: Kimi K2/OpenAI)", "box"),
       N("alerts", "Alerts\n(Slack/SNS)", "box"),
       E("ingest", "embed", "messages", "solid"),
       E("embed", "store", "vector(384)", "solid"),
       E("search", "store", "query vectors", "both"),
       E("analysis", "store", "context", "both"),
       E("analysis", "alerts", "incidents", "solid") >>

search_ui_body_dangling ==
    << N("title", "Title Bar", "box"),
       N("searchbox", "Search Box", "box"),
       N("results", "Results Table", "box"),
       N("status", "Service Status Cards", "box"),
       N("charts", "Charts (tasks/cpu/mem)", "box"),
       N("tasks", "Tasks Table", "box"),
       N("help", "Hotkeys: Enter/r/d/q", "box"),
       Es(<< <<"title", "searchbox">>, <<"searchbox", "results">>,
             <<"title", "status">>, <<"status", "charts">>,
             <<"charts", "tasks">>, <<"results", "help">>,
             <<"tasks", "helpbar">> >>) >>

search_ui_body_short ==
    << N("title", "Title Bar", "box"),
       N("searchbox", "Search Box", "box"),
       N("results", "Results Table", "box"),
       N("status", "Service Status Cards", "box"),
       N("charts", "Charts (tasks/cpu/mem)", "box"),
       N("tasks", "Tasks Table", "box"),
       N("help", "Hotkeys: Enter/r/d/q", "box"),
       Es(<< <<"title", "searchbox">>, <<"searchbox", "results">>,
             <<"title", "status">>, <<"status", "charts">>,
             <<"charts", "tasks">>, <<"results", "help">> >>) >>

search_ui_body ==
    << N("title", "Title Bar", "box"),
       N("searchbox", "Search Box", "box"),
       N("results", "Results Table", "box"),
       N("status", "Service Status Cards", "box"),
       N("charts", "Charts (tasks/cpu/mem)", "box"),
       N("tasks", "Tasks Table", "box"),
       N("help", "Hotkeys: Enter/r/d/q", "box"),
       Es(<< <<"title", "searchbox">>, <<"searchbox", "results">>,
             <<"title", "status">>, <<"status", "charts">>,
             <<"charts", "tasks">>, <<"results", "help">>,
             <<"tasks", "help">> >>) >>

Body(s) ==
    CASE s = "deployment" -> deployment_body
      [] s = "llm_flow"   -> llm_flow_body
      [] s = "overview"   -> overview_body
      [] s = "pipeline"   -> pipeline_body
      [] s = "search_ui"  -> search_ui_body

\* ------------------------------------------------------- graph construction
\* Digraph.node appends one node statement to the body of the graph it is
\* called on (c is the enclosing cluster, "" at top level).
AddNode(g, st, c) ==
    [g EXCEPT !.nodes = Append(@, [id |-> st.id, label |-> st.label,
                                   shape |-> st.shape, cluster |-> c])]

\* Digraph.edge appends one edge statement.
AddEdge(g, tail, head, label, style) ==
    [g EXCEPT !.edges = Append(@, [tail |-> tail, head |-> head,
                                   label |-> label, style |-> style])]

\* Digraph.edges appends one edge per pair, in order.
RECURSIVE AddEdges(_, _)
AddEdges(g, pairs) ==
    IF pairs = << >> THEN g
    ELSE AddEdges(AddEdge(g, Head(pairs)[1], Head(pairs)[2], "", "solid"), Tail(pairs))

\* The statements of generate() executed in order on the graph g.
RECURSIVE Declare(_, _, _)
Declare(g, stmts, c) ==
    IF stmts = << >> THEN g
    ELSE LET st == Head(stmts)
             g1 == CASE st.op = "node"  -> AddNode(g, st, c)
                      [] st.op = "edge"  -> AddEdge(g, st.tail, st.head, st.label, st.style)
                      [] st.op = "edges" -> AddEdges(g, st.pairs)
                      [] st.op = "subgraph" ->
                           Declare([g EXCEPT !.clusters =
                                        Append(@, [name |-> st.name, label |-> st.label])],
                                   st.body, st.name)
         IN Declare(g1, Tail(stmts), c)

\* --------------------------------------------------------------- file names
\* Path(__file__).parent / "out": the five scripts live in one directory.
OutDir == "diagrams/out"

\* The literal each script joins to the out directory: path / "<name>".
BasenameClash(s) ==
    CASE s = "deployment" -> "deployment"
      [] s = "llm_flow"   -> "pipeline"
      [] s = "overview"   -> "overview"
      [] s = "pipeline"   -> "pipeline"
      [] s = "search_ui"  -> "search_ui"

Basename(s) ==
    CASE s = "deployment" -> "deployment"
      [] s = "llm_flow"   -> "llm_flow"
      [] s = "overview"   -> "overview"
      [] s = "pipeline"   -> "pipeline"
      [] s = "search_ui"  -> "search_ui"

\* The first argument of Digraph(...): the graph's name.
GraphName(s) ==
    CASE s = "deployment" -> "autoir_deployment"
      [] s = "llm_flow"   -> "autoir_llm_flow"
      [] s = "overview"   -> "autoir_overview"
      [] s = "pipeline"   -> "autoir_pipeline"
      [] s = "search_ui"  -> "autoir_search_ui"

\* dot.attr(rankdir=...)
Rankdir(s) == IF s = "deployment" THEN "TB" ELSE "LR"

\* A path is a directory, a base name and an extension ("" for none).
Join(dir, base) == [dir |-> dir, base |-> base, ext |-> ""]

\* The engine's output path: the source path with "." + format appended.
RenderedInPlace(fn, format) == fn
Rendered(fn, format) == [dir |-> fn.dir, base |-> fn.base, ext |-> format]

\* Digraph(name, filename=str(path / base), format="svg"); dot.attr(rankdir=..)
Digraph(s, path) ==
    [name |-> GraphName(s), filename |-> Join(path, Basename(s)), format |-> "svg",
     rankdir |-> Rankdir(s), nodes |-> << >>, edges |-> << >>, clusters |-> << >>]

\* The graph generate(path) has declared when it reaches dot.render().
Declared(s, path) == Declare(Digraph(s, path), Body(s), "")

NoGraph == [name |-> "", filename |-> Join("", ""), format |-> "",
            rankdir |-> "", nodes |-> << >>, edges |-> << >>, clusters |-> << >>]
NoPath == Join("", "")

\* ------------------------------------------------------------- file system
NoFiles == [x \in {} |-> 0]
Put(f, n, c) == [x \in (DOMAIN f) \cup {n} |-> IF x = n THEN c ELSE f[x]]
DelKeep(f, n) == f
Del(f, n) == [x \in (DOMAIN f) \ {n} |-> f[x]]

\* out_dir.mkdir(parents=True, exist_ok=True): the outcome of the call for a
\* directory that exists or not, under a parent that allows creation or not.
mkdir_strict(exists, canCreate) ==
    IF exists THEN "FileExistsError"
    ELSE IF canCreate THEN "created" ELSE "PermissionError"

mkdir(exists, canCreate) ==
    IF exists THEN "exists"
    ELSE IF canCreate THEN "created" ELSE "PermissionError"

\* Outcomes of the layout engine run by render().
EngineOutcomes == {"ok", "ExecutableNotFound", "CalledProcessError"}

\* -------------------------------------------------------------------- state
VARIABLES
    dirExists,       \* the out directory exists
    parentWritable,  \* a directory can be created next to the scripts
    outWritable,     \* files can be created in the out directory
    files,           \* path -> content, the files in the out directory
    pc,              \* script -> position in its __main__ block
    runs,            \* script -> invocations started
    made,            \* script -> this invocation created the out directory
    graph,           \* script -> the Digraph local to generate(), while it runs
    out_file,        \* script -> the value generate() returned
    err,             \* script -> the exception that ended the invocation
    console,         \* script -> the lines printed on stdout
    log              \* script -> one record per finished invocation

vars == << dirExists, parentWritable, outWritable, files, pc, runs,
           made, graph, out_file, err, console, log >>

Init ==
    /\ dirExists \in BOOLEAN
    /\ parentWritable \in BOOLEAN
    /\ outWritable \in (IF dirExists THEN BOOLEAN ELSE {TRUE})
    /\ files = NoFiles
    /\ pc = [s \in Scripts |-> "idle"]
    /\ runs = [s \in Scripts |-> 0]
    /\ made = [s \in Scripts |-> FALSE]
    /\ graph = [s \in Scripts |-> NoGraph]
    /\ out_file = [s \in Scripts |-> NoPath]
    /\ err = [s \in Scripts |-> "none"]
    /\ console = [s \in Scripts |-> << >>]
    /\ log = [s \in Scripts |-> << >>]

Swallow(s, e, fs, m) ==
    /\ pc' = [pc EXCEPT ![s] = "print"]
    /\ err' = [err EXCEPT ![s] = e]
    /\ graph' = [graph EXCEPT ![s] = NoGraph]
    /\ log' = log

\* An uncaught exception e ends the invocation of s, and with it the graph
\* local to generate(); fs is the file system it leaves behind, m whether the
\* invocation created the out directory.
Raise(s, e, fs, m) ==
    /\ pc' = [pc EXCEPT ![s] = "failed"]
    /\ err' = [err EXCEPT ![s] = e]
    /\ graph' = [graph EXCEPT ![s] = NoGraph]
    /\ log' = [log EXCEPT ![s] = Append(@, [ok |-> FALSE, err |-> e,
                                            listing |-> DOMAIN fs,
                                            made |-> m])]

\* The invocations started so far, of all scripts.
RECURSIVE Sum(_, _)
Sum(f, S) == IF S = {} THEN 0
             ELSE LET x == CHOOSE y \in S : TRUE IN f[x] + Sum(f, S \ {x})
Invocations(r) == Sum(r, Scripts)

\* The script is run (again); scripts already running keep running.
Invoke(s) ==
    /\ pc[s] \in {"idle", "done", "failed"}
    /\ Invocations(runs) < MaxInvocations
    /\ runs' = [runs EXCEPT ![s] = @ + 1]
    /\ pc' = [pc EXCEPT ![s] = "ensure_out_dir"]
    /\ made' = [made EXCEPT ![s] = FALSE]
    /\ out_file' = [out_file EXCEPT ![s] = NoPath]
    /\ err' = [err EXCEPT ![s] = "none"]
    /\ UNCHANGED << dirExists, parentWritable, outWritable, files, graph,
                    console, log >>

\* out = ensure_out_dir()
ensure_out_dir(s) ==
    /\ pc[s] = "ensure_out_dir"
    /\ LET r == mkdir(dirExists, parentWritable) IN
         /\ dirExists' = (dirExists \/ r = "created")
         /\ outWritable' = (IF r = "created" THEN TRUE ELSE outWritable)
         /\ made' = [made EXCEPT ![s] = (r = "created")]
         /\ IF r \in {"exists", "created"}
              THEN /\ pc' = [pc EXCEPT ![s] = "generate"]
                   /\ UNCHANGED << err, log, graph >>
              ELSE Raise(s, r, files, FALSE)
    /\ UNCHANGED << parentWritable, files, runs, out_file, console >>

\* generate(out), up to the call of dot.render(): the graph is declared.
generate(s) ==
    /\ pc[s] = "generate"
    /\ graph' = [graph EXCEPT ![s] = Declared(s, OutDir)]
    /\ pc' = [pc EXCEPT ![s] = "save"]
    /\ UNCHANGED << dirExists, parentWritable, outWritable, files, runs,
                    made, out_file, err, console, log >>

\* dot.render(cleanup=True), first step: the graph source is written under
\* the graph's file name.
render_save(s) ==
    /\ pc[s] = "save"
    /\ IF outWritable
         THEN /\ files' = Put(files, graph[s].filename,
                              [kind |-> "source", of |-> graph[s].name])
              /\ pc' = [pc EXCEPT ![s] = "engine"]
              /\ UNCHANGED << err, log, graph >>
         ELSE /\ files' = files
              /\ Raise(s, "PermissionError", files, made[s])
    /\ UNCHANGED << dirExists, parentWritable, outWritable, runs, made,
                    out_file, console >>

\* dot.render(cleanup=True), second step: the engine reads the source and
\* writes <file name>.<format>, or fails.
render_engine(s) ==
    /\ pc[s] = "engine"
    /\ LET fn == graph[s].filename
           target == Rendered(fn, graph[s].format)
       IN \E r \in EngineOutcomes, partial \in BOOLEAN :
            /\ r = "ok" => ~partial /\ fn \in DOMAIN files
            /\ r = "ExecutableNotFound" => ~partial
            /\ IF r = "ok"
                 THEN /\ files' = Put(files, target,
                                      [kind |-> "svg", of |-> files[fn].of])
                      /\ out_file' = [out_file EXCEPT ![s] = target]
                      /\ pc' = [pc EXCEPT ![s] = "cleanup"]
                      /\ UNCHANGED << err, log, graph >>
                 ELSE /\ files' = (IF partial
                                     THEN Put(files, target,
                                              [kind |-> "partial", of |-> graph[s].name])
                                     ELSE files)
                      /\ out_file' = out_file
                      /\ Raise(s, r, files', made[s])
    /\ UNCHANGED << dirExists, parentWritable, outWritable, runs, made,
                    console >>

\* dot.render(cleanup=True), last step: the graph source is deleted; render
\* returns the engine's output path and generate returns it as a Path, which
\* ends the life of the graph local to generate().
render_cleanup(s) ==
    /\ pc[s] = "cleanup"
    /\ LET fn == graph[s].filename IN
         IF fn \in DOMAIN files
           THEN /\ files' = Del(files, fn)
                /\ pc' = [pc EXCEPT ![s] = "print"]
                /\ graph' = [graph EXCEPT ![s] = NoGraph]
                /\ UNCHANGED << err, log >>
           ELSE /\ files' = files
                /\ Raise(s, "FileNotFoundError", files, made[s])
    /\ UNCHANGED << dirExists, parentWritable, outWritable, runs, made,
                    out_file, console >>

\* print(f"Wrote {out_file}")
LineLiteral(path) == [text |-> "Wrote ", path |-> Join("", "{out_file}")]
Line(path) == [text |-> "Wrote ", path |-> path]

print(s) ==
    /\ pc[s] = "print"
    /\ console' = [console EXCEPT ![s] = Append(@, Line(out_file[s]))]
    /\ pc' = [pc EXCEPT ![s] = "done"]
    /\ log' = [log EXCEPT ![s] = Append(@, [ok |-> TRUE, err |-> "none",
                                            listing |-> DOMAIN files,
                                            made |-> made[s]])]
    /\ UNCHANGED << dirExists, parentWritable, outWritable, files, runs,
                    made, graph, out_file, err >>

Next ==
    \E s \in Scripts :
        \/ Invoke(s)
        \/ ensure_out_dir(s)
        \/ generate(s)
        \/ render_save(s)
        \/ render_engine(s)
        \/ render_cleanup(s)
        \/ print(s)

Spec == Init /\ [][Next]_vars

\* ------------------------------------------------------------- vocabulary
Built(s) == graph[s] # NoGraph
NodeIds(g) == {g.nodes[i].id : i \in 1..Len(g.nodes)}
Labels(seq) == [i \in 1..Len(seq) |-> seq[i].label]
Source(s) == [dir |-> OutDir, base |-> s, ext |-> ""]
Output(s) == [dir |-> OutDir, base |-> s, ext |-> "svg"]
Own(s, listing) == {n \in listing : n.base = s}
Sole(s) == \A t \in Scripts \ {s} : runs[t] = 0
NotWritable == IF dirExists THEN ~outWritable ELSE ~parentWritable
Successes(s) == {i \in 1..Len(log[s]) : log[s][i].ok}
EngineErrors == {"ExecutableNotFound", "CalledProcessError"}

\* C1: in every diagram generate() has declared, the tail and the head of
\* every edge are identifiers of declared nodes (top level or in a cluster).
C1_NoDanglingEdges ==
    \A s \in Scripts : Built(s) =>
        \A i \in 1..Len(graph[s].edges) :
            /\ \E k \in 1..Len(graph[s].nodes) :
                   graph[s].nodes[k].id = graph[s].edges[i].tail
            /\ \E k \in 1..Len(graph[s].nodes) :
                   graph[s].nodes[k].id = graph[s].edges[i].head

C1_Witness ==
    /\ Built("overview") /\ Len(graph["overview"].edges) > 0
    /\ Built("search_ui") /\ Len(graph["search_ui"].edges) > 0

\* C2: in every diagram generate() has declared, no node identifier is
\* declared twice, clusters and top level taken together.
C2_UniqueNodeIds ==
    \A s \in Scripts : Built(s) =>
        \A i, j \in 1..Len(graph[s].nodes) :
            graph[s].nodes[i].id = graph[s].nodes[j].id => i = j

C2_Witness ==
    /\ Built("deployment") /\ Len(graph["deployment"].nodes) > 1
    /\ Built("overview") /\ Len(graph["overview"].nodes) > 1

\* C3: a second invocation after a successful one does not fail on the
\* existing directory or the existing output file and does not create the
\* directory; when it succeeds it leaves the script's files (all files, when
\* no other script ran) as the first left them; the directory is created by
\* at most one invocation.
C3_Idempotent ==
    \A s \in Scripts :
        /\ \A i \in 1..Len(log[s]) : \A j \in 1..Len(log[s]) :
               (log[s][i].made /\ log[s][j].made) => i = j
        /\ \A i \in 2..Len(log[s]) : log[s][i-1].ok =>
               /\ ~log[s][i].made
               /\ log[s][i].err \in {"none"} \cup EngineErrors
               /\ log[s][i].ok =>
                    /\ Own(s, log[s][i].listing) = Own(s, log[s][i-1].listing)
                    /\ Sole(s) => log[s][i].listing = log[s][i-1].listing

C3_Witness ==
    \E s \in Scripts :
        /\ Len(log[s]) = 2 /\ log[s][1].ok /\ log[s][2].ok
        /\ log[s][1].made
        /\ Output(s) \in log[s][2].listing

\* C4: when only one script is run, every successful invocation ends with
\* the out directory holding exactly one file, <diagram>.svg, the rendering
\* of that diagram's graph; the graph source is gone.
C4_ExactlyOneOutput ==
    \A s \in Scripts : Sole(s) =>
        /\ \A i \in Successes(s) : log[s][i].listing = {Output(s)}
        /\ pc[s] = "done" =>
             /\ DOMAIN files = {Output(s)}
             /\ files[Output(s)] = [kind |-> "svg", of |-> GraphName(s)]

C4_Witness ==
    \E s \in Scripts :
        /\ Sole(s) /\ pc[s] = "done" /\ runs[s] = 1
        /\ log[s][1].made /\ Output(s) \in DOMAIN files

\* C5: when the out directory cannot be created, or files cannot be created
\* in it, every invocation ends in a propagated PermissionError, no file is
\* written (so none is partial) and nothing is printed.
C5_NotWritableFails ==
    NotWritable =>
        \A s \in Scripts :
            /\ pc[s] \notin {"engine", "cleanup", "print", "done"}
            /\ pc[s] = "failed" => err[s] = "PermissionError"
            /\ console[s] = << >>
            /\ DOMAIN files = {}

C5_Witness ==
    \E s \in Scripts :
        /\ NotWritable /\ dirExists
        /\ pc[s] = "failed" /\ log[s][1].err = "PermissionError"

\* C6: a script has printed exactly one line per successful invocation and
\* none for a failed one; each line is "Wrote " and the path render
\* returned, and when it is printed the directory exists and the output
\* file is the rendering of the script's graph.
C6_OneLineOnSuccess ==
    \A s \in Scripts :
        /\ Len(console[s]) = Cardinality(Successes(s))
        /\ \A i \in 1..Len(console[s]) : console[s][i] = Line(Output(s))
        /\ pc[s] = "failed" => err[s] # "none"
        /\ pc[s] = "done" =>
             /\ err[s] = "none" /\ dirExists
             /\ console[s][Len(console[s])].path = out_file[s]
             /\ out_file[s] \in DOMAIN files
             /\ files[out_file[s]] = [kind |-> "svg", of |-> GraphName(s)]

C6_Witness ==
    \E s \in Scripts :
        /\ pc[s] = "done" /\ Len(console[s]) = 1 /\ Len(log[s]) = 2
        /\ ~log[s][1].ok

\* C7: every change to a file named after a diagram (its source or its
\* output) is made by a step of that diagram's script, whatever the
\* interleaving, and no script fails on the directory or the files another
\* one created: a PermissionError needs an unwritable location, and
\* FileExistsError and FileNotFoundError never occur.
C7_Changed(n) ==
    \/ (n \in DOMAIN files) # (n \in DOMAIN files')
    \/ n \in DOMAIN files /\ n \in DOMAIN files' /\ files[n] # files'[n]

C7_NoInterference ==
    [][ /\ \A n \in (DOMAIN files) \cup (DOMAIN files') :
              C7_Changed(n) => n.base \in Scripts /\ pc'[n.base] # pc[n.base]
        /\ \A s \in Scripts :
              /\ err'[s] \notin {"FileExistsError", "FileNotFoundError"}
              /\ err'[s] = "PermissionError" => NotWritable'
              /\ pc'[s] = "done" =>
                   /\ Output(s) \in DOMAIN files'
                   /\ files'[Output(s)] = [kind |-> "svg", of |-> GraphName(s)]
      ]_vars

C7_Witness ==
    \E s, t \in Scripts :
        /\ s # t /\ pc[s] = "done" /\ pc[t] = "done"
        /\ Source(t) \in log[s][1].listing
        /\ log[t][1].listing = {Output(s), Output(t)}

\* C8 as stated: the overview diagram has the five clusters AWS, AutoIR,
\* Data, Alerts, LLM Providers holding 14 nodes, and 14 edges.
C8_Overview14Edges ==
    Built("overview") =>
        /\ Labels(graph["overview"].clusters) =
               << "AWS", "AutoIR", "Data", "Alerts", "LLM Providers" >>
        /\ Len(graph["overview"].nodes) = 14
        /\ \A i \in 1..14 : graph["overview"].nodes[i].cluster # ""
        /\ Len(graph["overview"].edges) = 14

\* C8 amended: the overview diagram has the five clusters AWS, AutoIR, Data,
\* Alerts, LLM Providers holding 14 nodes, and 15 edges.
C8_Overview15Edges ==
    Built("overview") =>
        /\ Labels(graph["overview"].clusters) =
               << "AWS", "AutoIR", "Data", "Alerts", "LLM Providers" >>
        /\ Len(graph["overview"].nodes) = 14
        /\ Cardinality(NodeIds(graph["overview"])) = 14
        /\ \A i \in 1..14 : graph["overview"].nodes[i].cluster # ""
        /\ Len(graph["overview"].edges) = 15

C8_Witness == Built("overview") /\ pc["overview"] = "cleanup"

\* C9 as stated: the search_ui diagram has seven ungrouped nodes (title bar,
\* search box, results table, status cards, charts, tasks table, help bar)
\* and eight edges.
C9_SearchUi8Edges ==
    Built("search_ui") =>
        /\ Labels(graph["search_ui"].nodes) =
               << "Title Bar", "Search Box", "Results Table", "Service Status Cards",
                  "Charts (tasks/cpu/mem)", "Tasks Table", "Hotkeys: Enter/r/d/q" >>
        /\ \A i \in 1..7 : graph["search_ui"].nodes[i].cluster = ""
        /\ graph["search_ui"].clusters = << >>
        /\ Len(graph["search_ui"].edges) = 8

\* C9 amended: the search_ui diagram has seven ungrouped nodes (title bar,
\* search box, results table, status cards, charts, tasks table, help bar)
\* and seven edges.
C9_SearchUi7Edges ==
    Built("search_ui") =>
        /\ Labels(graph["search_ui"].nodes) =
               << "Title Bar", "Search Box", "Results Table", "Service Status Cards",
                  "Charts (tasks/cpu/mem)", "Tasks Table", "Hotkeys: Enter/r/d/q" >>
        /\ \A i \in 1..7 : graph["search_ui"].nodes[i].cluster = ""
        /\ graph["search_ui"].clusters = << >>
        /\ Len(graph["search_ui"].edges) = 7

C9_Witness == Built("search_ui") /\ pc["search_ui"] = "cleanup"

\* C10 as stated: once an invocation has ended, in success or in failure,
\* the diagram's graph source is not in the out directory.
C10_SourceAlwaysReleased ==
    \A s \in Scripts :
        pc[s] \in {"done", "failed"} => Source(s) \notin DOMAIN files

\* C10 amended: after a successful invocation the diagram's graph source is
\* not in the out directory; after an invocation the engine's failure ended,
\* the graph source is still there.
C10_SourceReleasedOnSuccess ==
    \A s \in Scripts :
        /\ pc[s] = "done" => Source(s) \notin DOMAIN files
        /\ (pc[s] = "failed" /\ err[s] \in EngineErrors) =>
               Source(s) \in DOMAIN files

C10_Witness ==
    \E s, t \in Scripts :
        /\ pc[s] = "done" /\ Output(s) \in DOMAIN files
        /\ pc[t] = "failed" /\ err[t] = "ExecutableNotFound"
====
